---- MODULE Spec2Model ----
(***************************************************************************)
(* Model of src/plugin.py: titleCommand, the handler of the "/title" chat  *)
(* command.  One command instance handles one message: execute parses the  *)
(* trigger text, _set_title posts the title to the group-management API    *)
(* and translates the answer into a chat message and a result tuple.       *)
(*                                                                         *)
(* Strings are sequences of one-character strings, so that slicing,        *)
(* prefix tests, str.strip and the regular expression are computed.        *)
(* Chinese message literals are written as ASCII tags; the original text   *)
(* is quoted next to each.                                                 *)
(***************************************************************************)
EXTENDS Integers, Sequences, FiniteSets, TLC

VARIABLES
    pc,             \* position of the invocation in execute / _set_title
    fault,          \* environment fault of this invocation ("none" in Spec)
    group_info,     \* self.message.message_info.group_info (None in private chat)
    user_info,      \* self.message.message_info.user_info
    raw_text,       \* self.message.processed_plain_text
    branch,         \* which parsing branch of execute / _handle_special_cases ran
    title_content,  \* argument of _set_title (empty until execute has parsed)
    posted,         \* requests.post calls issued, in order
    response,       \* what requests.post produced for the call in flight
    sent,           \* messages delivered through send_text, in order
    ret             \* value returned by execute (None until it returns)

vars == <<pc, fault, group_info, user_info, raw_text, branch, title_content,
          posted, response, sent, ret>>

\* Python's None, for the record-valued variables
None == [none |-> TRUE]

\* no hole in a message literal
NoArg == <<>>

----------------------------------------------------------------------------
(* Bounds and input alphabets *)

MaxArgs == 3

SP == " "
TAB == "\t"
Alphabet == {SP, TAB, "a", "b"}

GroupIds == {901, 902}
UserIds == {77}
Reasons == {"permission denied", "not admin"}

----------------------------------------------------------------------------
(* Python string operations *)

\* the literal "/title" (6 characters)
Token == <<"/", "t", "i", "t", "l", "e">>

\* the literal "/title " (7 characters)
TokenSp == Token \o <<SP>>

\* str.isspace for one character; also the class \s of the regular expression
IsSpace(c) == c \in {SP, TAB}

\* s[k:]
SliceFrom(s, k) == IF k >= Len(s) THEN <<>> ELSE SubSeq(s, k + 1, Len(s))

\* s.startswith(p)
StartsWith(s, p) == Len(s) >= Len(p) /\ SubSeq(s, 1, Len(p)) = p

RECURSIVE LStrip(_)
LStrip(s) == IF s # <<>> /\ IsSpace(Head(s)) THEN LStrip(Tail(s)) ELSE s

RECURSIVE RStrip(_)
RStrip(s) ==
    IF s # <<>> /\ IsSpace(s[Len(s)]) THEN RStrip(SubSeq(s, 1, Len(s) - 1)) ELSE s

\* s.strip()
Strip(s) == RStrip(LStrip(s))

\* re.match(r"^/title\s+$", s)
MatchTitleSpaces(s) ==
    /\ StartsWith(s, Token)
    /\ Len(s) > Len(Token)
    /\ \A i \in (Len(Token) + 1)..Len(s) : IsSpace(s[i])

\* str(x) of an integer id
Str(x) == ToString(x)

\* all strings over Alphabet of length at most n
RECURSIVE StringsUpTo(_)
StringsUpTo(n) ==
    IF n = 0 THEN {<<>>}
    ELSE LET shorter == StringsUpTo(n - 1)
         IN  shorter \cup {Append(s, c) : s \in {t \in shorter : Len(t) = n - 1},
                                          c \in Alphabet}

\* command_pattern = r"^/title(?P<args>.*)$": texts the host hands to execute
TriggerTexts == {Token \o args : args \in StringsUpTo(MaxArgs)}

----------------------------------------------------------------------------
(* Messages and result tuples: an f-string is its literal part and the      *)
(* string in its hole, a sequence                                          *)

Fmt(literal, hole) == [text |-> literal, arg |-> hole]

MsgScope == Fmt("group-only", NoArg)           \* "专属头衔只能在群聊中设置哦~"
MsgCommandError == Fmt("command-error", NoArg) \* "❌ 处理命令时发生错误，请稍后重试~"
MsgSet(t) == Fmt("title-set: ", t)            \* f"✅ 已为你设置专属头衔：{display_content}"
MsgRemoved == Fmt("title-removed", NoArg)      \* "✅ 已收回头衔"
MsgFailed(m) == Fmt("set-failed: ", <<m>>)        \* f"❌ 设置头衔失败：{error_msg}"
MsgNetwork == Fmt("network-error", NoArg)      \* "❌ 网络错误，请稍后重试~"

Result(desc) == [handled |-> TRUE, desc |-> desc, terminal |-> FALSE]

RetScope == Result(Fmt("not-in-group", NoArg))          \* "不在群聊中，无法设置头衔"
RetCommandError(e) == Result(Fmt("handling-error: ", <<e>>)) \* f"处理错误: {e}"
RetSuccess(t) == Result(Fmt("title-set-ok: ", t))      \* f"成功设置头衔: {title_content}"
RetFailed(m) == Result(Fmt("title-set-failed: ", <<m>>))   \* f"设置头衔失败: {error_msg}"
RetTransport(e) == Result(Fmt("api-request-failed: ", <<e>>)) \* f"API请求失败: {e}"
RetUnknown(e) == Result(Fmt("unknown-error: ", <<e>>))     \* f"未知错误: {e}"

UnknownErrorPhrase == "unknown error"                  \* "未知错误"

----------------------------------------------------------------------------
(* The remote service as seen through requests *)

Timeout == 10
DefaultUrl == "http://127.0.0.1:3000"

\* 200, another non-error status, an error status
StatusCodes == {200, 201, 500}

Absent == "absent"

\* response.json(): not JSON, JSON that is not an object, or an object
Bodies ==
    [json : {"unparsable", "nondict"}] \cup
    [json : {"object"}, status : {"ok", "fail", Absent}, message : Reasons \cup {Absent}]

\* outcomes of requests.post(...): an exception or a response
PostOutcomes ==
    [kind : {"Timeout", "ConnectionError"}] \cup
    [kind : {"response"}, status_code : StatusCodes, body : Bodies]

\* response.json() raises requests' JSONDecodeError (a RequestException) in
\* requests >= 2.27 and a plain ValueError before
JsonErrorKinds == {"RequestException", "ValueError"}

\* dict.get(key, default)
Get(d, key, default) == IF d[key] = Absent THEN default ELSE d[key]

----------------------------------------------------------------------------
(* execute: scope check and parsing of the trigger text *)

Faults == {"none", "context", "config", "send"}

\* the scope check left out
NotInGroupMut(g) == FALSE

\* `if not group_info`
NotInGroup(g) == g = None

\* raw_text == "/title" or raw_text == "/title "
IsRemoval(raw) == raw = Token \/ raw = TokenSp

\* only the token is cut off, the separating space stays
SetContentMut(raw) == SliceFrom(raw, 6)

\* content = raw_text[7:]
SetContent(raw) == SliceFrom(raw, 7)

\* a blank instead of the empty string
RemoveContentMut == <<SP>>

\* _remove_title: the title passed on to _set_title
RemoveContent == <<>>

\* the fallback cuts seven characters off whatever the text is
handle_special_casesMut(raw) ==
    IF MatchTitleSpaces(raw)
    THEN LET spaces == SliceFrom(raw, 6)
         IN  [branch |-> "spaces",
              title  |-> IF Len(spaces) >= 1 THEN SliceFrom(spaces, 1) ELSE spaces]
    ELSE [branch |-> "fallback_raw", title |-> SliceFrom(raw, 7)]

\* _handle_special_cases: the branch taken and the title passed to _set_title
handle_special_cases(raw) ==
    IF MatchTitleSpaces(raw)
    THEN LET spaces == SliceFrom(raw, 6)
         IN  [branch |-> "spaces",
              title  |-> IF Len(spaces) >= 1 THEN SliceFrom(spaces, 1) ELSE spaces]
    ELSE IF StartsWith(raw, TokenSp)
         THEN [branch |-> "fallback_strip", title |-> SliceFrom(raw, 7)]
         ELSE [branch |-> "fallback_raw", title |-> raw]

\* the if / elif / else of execute
execute_parse(raw) ==
    IF IsRemoval(raw) THEN [branch |-> "remove", title |-> RemoveContent]
    ELSE IF StartsWith(raw, TokenSp) THEN [branch |-> "set", title |-> SetContent(raw)]
    ELSE handle_special_cases(raw)

\* send_text(msg) followed by `return r`; a raising send_text is caught by
\* the enclosing `except Exception` of _set_title
SendThenReturn(f, msg, r) ==
    IF f = "send" THEN [sent |-> <<>>, ret |-> RetUnknown("SendError")]
    ELSE [sent |-> <<msg>>, ret |-> r]

----------------------------------------------------------------------------
(* _set_title: request construction and response translation *)

RequestData(g, u, t) ==
    [group_id |-> Str(g.group_id), user_id |-> Str(u.user_id), special_title |-> t]

PostCall(g, u, t) ==
    [base |-> DefaultUrl, path |-> "/set_group_special_title",
     content_type |-> "application/json",
     data |-> RequestData(g, u, t), timeout |-> Timeout]

\* raise_for_status() left out: an HTTP error status is not an exception
RaisesRequestExceptionMut(r) == r.kind \in {"Timeout", "ConnectionError"}

\* requests.post raised, or response.raise_for_status() raises
RaisesRequestException(r) ==
    \/ r.kind \in {"Timeout", "ConnectionError"}
    \/ r.kind = "response" /\ r.status_code >= 400

RequestExceptionName(r) == IF r.kind = "response" THEN "HTTPError" ELSE r.kind

\* result.get("status") == "ok" or response.status_code == 200
IsOk(r) == r.body.status = "ok" \/ r.status_code = 200

\* except requests.exceptions.RequestException
TransportHandler(f, e) == SendThenReturn(f, MsgNetwork, RetTransport(e))

\* the success branch: message construction and return
SuccessBranch(f, t) ==
    IF Strip(t) # <<>>
    THEN SendThenReturn(f, MsgSet(t), RetSuccess(t))
    ELSE IF Len(t) > 0
         THEN \* display_content is unbound here: UnboundLocalError, caught by
              \* the outer `except Exception`, whose send_text is commented out
              [sent |-> <<>>, ret |-> RetUnknown("UnboundLocalError")]
         ELSE SendThenReturn(f, MsgRemoved, RetSuccess(t))

\* the else branch: remote rejection
FailureBranch(f, r) ==
    LET error_msg == Get(r.body, "message", UnknownErrorPhrase)
    IN  SendThenReturn(f, MsgFailed(error_msg), RetFailed(error_msg))

\* everything _set_title does once requests.post has produced r
set_title_outcome(f, t, r, jsonExc) ==
    IF RaisesRequestException(r) THEN TransportHandler(f, RequestExceptionName(r))
    ELSE IF r.body.json = "unparsable"
         THEN IF jsonExc = "RequestException"
              THEN TransportHandler(f, "JSONDecodeError")
              ELSE [sent |-> <<>>, ret |-> RetUnknown("JSONDecodeError")]
    ELSE IF r.body.json = "nondict"
         THEN [sent |-> <<>>, ret |-> RetUnknown("AttributeError")]
    ELSE IF IsOk(r) THEN SuccessBranch(f, t)
    ELSE FailureBranch(f, r)

\* Succeeded | Failed, read off the returned tuple
TerminalOf(r) == IF r.desc.text = "title-set-ok: " THEN "Succeeded" ELSE "Failed"

\* the call is issued a second time
IssueMut(calls, call) == Append(Append(calls, call), call)

\* the calls issued so far plus this one
Issue(calls, call) == Append(calls, call)

----------------------------------------------------------------------------
(* State machine of one invocation *)

TypeOK ==
    /\ pc \in {"Received", "Parsed", "Dispatched", "Succeeded", "Failed", "Raised"}
    /\ fault \in Faults
    /\ group_info \in {None} \cup [group_id : GroupIds]
    /\ user_info \in [user_id : UserIds]
    /\ raw_text \in TriggerTexts
    /\ Len(posted) <= 2
    /\ Len(sent) <= 2

InitWith(faults) ==
    /\ pc = "Received"
    /\ fault \in faults
    /\ group_info \in {None} \cup [group_id : GroupIds]
    /\ user_info \in [user_id : UserIds]
    /\ raw_text \in TriggerTexts
    /\ branch = "none"
    /\ title_content = <<>>
    /\ posted = <<>>
    /\ response = None
    /\ sent = <<>>
    /\ ret = None

Init == InitWith({"none"})

FaultInit == InitWith(Faults)

\* execute up to the call of _set_title (lines 25-50 and 52-55)
Parse ==
    /\ pc = "Received"
    /\ IF fault = "context"
       THEN \* message_info is missing: AttributeError, handled at line 52
            /\ sent' = Append(sent, MsgCommandError)
            /\ ret' = RetCommandError("AttributeError")
            /\ pc' = "Failed"
            /\ UNCHANGED <<branch, title_content>>
       ELSE IF NotInGroup(group_info)
       THEN IF fault = "send"
            THEN \* send_text raises at line 32 and again at line 54, inside
                 \* the handler: the exception leaves execute
                 /\ pc' = "Raised"
                 /\ UNCHANGED <<sent, ret, branch, title_content>>
            ELSE /\ sent' = Append(sent, MsgScope)
                 /\ ret' = RetScope
                 /\ pc' = "Failed"
                 /\ UNCHANGED <<branch, title_content>>
       ELSE LET p == execute_parse(raw_text)
            IN  /\ branch' = p.branch
                /\ title_content' = p.title
                /\ pc' = "Parsed"
                /\ UNCHANGED <<sent, ret>>
    /\ UNCHANGED <<fault, group_info, user_info, raw_text, posted, response>>

\* _set_title up to and including requests.post (lines 73-96)
Dispatch ==
    /\ pc = "Parsed"
    /\ IF fault = "config"
       THEN \* plugin_config is unusable: caught at line 124, nothing posted
            /\ ret' = RetUnknown("AttributeError")
            /\ pc' = "Failed"
            /\ UNCHANGED <<posted, response>>
       ELSE /\ posted' = Issue(posted, PostCall(group_info, user_info, title_content))
            /\ \E o \in PostOutcomes : response' = o
            /\ pc' = "Dispatched"
            /\ UNCHANGED ret
    /\ UNCHANGED <<fault, group_info, user_info, raw_text, branch, title_content, sent>>

\* the rest of _set_title (lines 97-127) and the return through execute
Translate ==
    /\ pc = "Dispatched"
    /\ \E jsonExc \in JsonErrorKinds :
         LET o == set_title_outcome(fault, title_content, response, jsonExc)
         IN  /\ sent' = sent \o o.sent
             /\ ret' = o.ret
             /\ pc' = TerminalOf(o.ret)
    /\ UNCHANGED <<fault, group_info, user_info, raw_text, branch, title_content,
                   posted, response>>

Next == Parse \/ Dispatch \/ Translate

Spec == Init /\ [][Next]_vars

\* the invocation is a linear sequence that is run to completion; the
\* network call returns or times out
LiveSpec == Init /\ [][Next]_vars /\ WF_vars(Next)

\* the same, with an environment that may fail
FaultSpec == FaultInit /\ [][Next]_vars

----------------------------------------------------------------------------
(* Vocabulary of the properties *)

Terminal == pc \in {"Succeeded", "Failed", "Raised"}

InGroup == group_info \in [group_id : GroupIds]

\* the special_title of the request that was posted
PostedTitle == posted[1].data.special_title

\* the remote call failed at transport level: timeout, network error, or an
\* HTTP error status
TransportFailed ==
    \/ response \in [kind : {"Timeout", "ConnectionError"}]
    \/ response \in [kind : {"response"}, status_code : {c \in StatusCodes : c >= 400},
                     body : Bodies]

\* a response without HTTP error whose body is a JSON object
Delivered ==
    /\ response \in [kind : {"response"}, status_code : {c \in StatusCodes : c < 400},
                     body : Bodies]
    /\ response.body.json = "object"

\* HTTP 200 with body status "ok"
RemoteSaysOk == Delivered /\ response.status_code = 200 /\ response.body.status = "ok"

\* the text after the token is one or more whitespace characters
OnlyWhitespaceAfterToken(raw) ==
    /\ Len(raw) > 6
    /\ \A i \in 7..Len(raw) : raw[i] \in {SP, TAB}

----------------------------------------------------------------------------
(* C1: a non-group invocation never issues a remote call; it sends exactly *)
(* the scope rejection message and returns the scope rejection tuple,      *)
(* whatever the trigger text.                                              *)
C1_ScopeRejection ==
    group_info = None =>
        /\ posted = <<>>
        /\ pc \in {"Received", "Failed"}
        /\ pc = "Failed" => sent = <<MsgScope>> /\ ret = RetScope

C1_Witness ==
    /\ group_info = None
    /\ raw_text = TokenSp \o <<"a", "b">>
    /\ pc = "Failed"
    /\ sent = <<MsgScope>>

(* C2: every Title Request handed to _set_title, for every title string    *)
(* and for remote success, remote rejection and transport failure, yields  *)
(* exactly one returned tuple and exactly one message sent by send_text.   *)
C2_OneOutcomeOneMessage ==
    Terminal /\ posted # <<>> /\ (TransportFailed \/ Delivered) =>
        /\ ret # None
        /\ Len(sent) = 1

(* C3: round trip: when the remote answers HTTP 200 with status "ok", the  *)
(* outcome is Success and its description carries exactly the title that   *)
(* the parser derived and that was posted as special_title, for empty,     *)
(* whitespace-only and other titles alike.                                 *)
C3_RoundTrip ==
    Terminal /\ InGroup /\ RemoteSaysOk =>
        /\ pc = "Succeeded"
        /\ ret = RetSuccess(PostedTitle)
        /\ PostedTitle = title_content

(* C4: a delivered response whose body has a status other than "ok" is     *)
(* reported as a failure: the message sent contains the remote reason (or  *)
(* the "unknown error" phrase when there is none) and the outcome is       *)
(* Failure with that reason, never Success.                                *)
C4_RemoteRejection ==
    Terminal /\ Delivered /\ response.body.status # "ok" =>
        LET m == IF response.body.message \in Reasons
                 THEN response.body.message ELSE UnknownErrorPhrase
        IN  /\ sent = <<MsgFailed(m)>>
            /\ ret = RetFailed(m)
            /\ pc = "Failed"

(* C5: in group scope the trigger texts "/title" and "/title " post the    *)
(* empty string as special_title, and on remote success the message sent   *)
(* is the 'title removed' confirmation.                                    *)
C5_Removal ==
    InGroup /\ raw_text \in {Token, Token \o <<SP>>} =>
        /\ posted # <<>> => PostedTitle = <<>>
        /\ pc \in {"Dispatched", "Succeeded", "Failed"} => Len(posted) = 1
        /\ Terminal /\ RemoteSaysOk => sent = <<MsgRemoved>> /\ pc = "Succeeded"

C5_Witness ==
    /\ InGroup
    /\ raw_text = Token \o <<SP>>
    /\ pc = "Succeeded"
    /\ RemoteSaysOk
    /\ PostedTitle = <<>>
    /\ sent = <<MsgRemoved>>

(* C6: in group scope a trigger text "/title " followed by a non-empty     *)
(* remainder posts exactly that remainder as special_title, whitespace     *)
(* included: "/title ab" posts "ab" and the token followed by three spaces *)
(* posts two spaces.                                                       *)
C6_VerbatimRemainder ==
    InGroup /\ Len(raw_text) > 7 /\ SubSeq(raw_text, 1, 7) = Token \o <<SP>> =>
        /\ pc \in {"Dispatched", "Succeeded", "Failed"} => Len(posted) = 1
        /\ posted # <<>> =>
            /\ Token \o <<SP>> \o PostedTitle = raw_text
            /\ raw_text = Token \o <<SP, "a", "b">> => PostedTitle = <<"a", "b">>
            /\ raw_text = Token \o <<SP, SP, SP>> => PostedTitle = <<SP, SP>>

C6_Witness ==
    /\ InGroup
    /\ raw_text = Token \o <<SP, SP, SP>>
    /\ Len(posted) = 1
    /\ PostedTitle = <<SP, SP>>

(* C7: when the remote call fails at transport level (timeout, network     *)
(* error, HTTP error status), for every title the message sent is the      *)
(* network-error notice, exactly once, the outcome is Failure with the     *)
(* transport error, and the call was issued once only.                     *)
C7_TransportFailure ==
    Terminal /\ posted # <<>> /\ TransportFailed =>
        /\ sent = <<MsgNetwork>>
        /\ pc = "Failed"
        /\ ret \in {RetTransport(e) : e \in {"Timeout", "ConnectionError", "HTTPError"}}
        /\ response.kind # "response" => ret = RetTransport(response.kind)
        /\ Len(posted) = 1

C7_Witness ==
    /\ pc = "Failed"
    /\ response \in [kind : {"response"}, status_code : {500}, body : Bodies]
    /\ title_content = <<SP, SP>>
    /\ sent = <<MsgNetwork>>
    /\ ret = RetTransport("HTTPError")

(* C8: no exception raised while execute runs (reading the context,        *)
(* building the request, the remote call, parsing the response, sending    *)
(* the chat message) leaves execute: every invocation ends with a          *)
(* returned tuple.                                                         *)
C8_NothingPropagates == pc # "Raised" /\ (Terminal => ret # None)

(* C9: every invocation moves Received -> Parsed -> Dispatched ->          *)
(* Succeeded | Failed and eventually ends with a returned tuple; at most   *)
(* one POST is issued, none before parsing, and after the end no POST and  *)
(* no message follows.                                                     *)
C9_StateMachine ==
    /\ <>(pc \in {"Succeeded", "Failed"} /\ ret # None)
    /\ [](Len(posted) <= 1)
    /\ [](pc \in {"Received", "Parsed"} => posted = <<>> /\ sent = <<>>)
    /\ [][\/ pc = "Received" /\ pc' \in {"Parsed", "Failed"}
          \/ pc = "Parsed" /\ pc' = "Dispatched"
          \/ pc = "Dispatched" /\ pc' \in {"Succeeded", "Failed"}]_vars
    /\ [][Terminal => posted' = posted /\ sent' = sent /\ pc' = pc]_vars

C9_Witness ==
    /\ pc = "Failed"
    /\ Len(posted) = 1
    /\ Delivered
    /\ response.status_code = 201
    /\ response.body.status = "fail"
    /\ Len(sent) = 1

(* C10: in group scope a trigger text that begins with "/title" but is     *)
(* not the bare token, is not the token followed by a space, and is not    *)
(* the token followed only by whitespace is posted whole, token included,  *)
(* by the fallback; the prefix-stripping branch of the fallback is never   *)
(* taken.                                                                  *)
C10_FallbackPostsWholeText ==
    /\ branch # "fallback_strip"
    /\ (/\ InGroup
        /\ Len(raw_text) > 6
        /\ raw_text[7] # SP
        /\ ~OnlyWhitespaceAfterToken(raw_text))
       => /\ pc # "Received" => branch = "fallback_raw" /\ title_content = raw_text
          /\ pc \in {"Dispatched", "Succeeded", "Failed"} => Len(posted) = 1
          /\ posted # <<>> => PostedTitle = raw_text

C10_Witness ==
    /\ InGroup
    /\ raw_text = Token \o <<"a", "b">>
    /\ branch = "fallback_raw"
    /\ Len(posted) = 1
    /\ PostedTitle = Token \o <<"a", "b">>

====
